---- MODULE Spec2Model ----
(***************************************************************************)
(* Receipt scanner (crackerky/receipt-scanner).                            *)
(*                                                                         *)
(* Three state machines share this module:                                 *)
(*   SpecEdge  the receipt-upload edge function (src/unnamed/part_001)     *)
(*             writing to the receipts table of the SQL migration;         *)
(*   SpecCore  the extraction decision core (mode selector, vision path,   *)
(*             OCR + regex path, reconciler).  Its implementation          *)
(*             (app/main.py of the backend) is not among the sources, so   *)
(*             it is modelled from spec.md sections 3-7;                   *)
(*   Spec      the browser front end: App.tsx with the api module          *)
(*             (src/unnamed/part_005, the one that exports everything      *)
(*             App.tsx imports).                                           *)
(* Each specification leaves the variables of the other two untouched.     *)
(***************************************************************************)
EXTENDS Integers, Sequences, FiniteSets, TLC

\* ------------------------------------------------------------------------
\* Optional values: null/undefined is the empty set, a present value v is {v}.
\* ------------------------------------------------------------------------
None == {}

Some(v) == {v}

Val(o) == CHOOSE v \in o : TRUE

IsNone(o) == o = {}

Opt(S) == {None} \cup {Some(v) : v \in S}

\* ------------------------------------------------------------------------
\* Bounds of the model
\* ------------------------------------------------------------------------
\* Calendar days the clock may reach (1 is the first day).
MaxDay == 2

\* Rows the receipts table may hold.
MaxRows == 2

Days == 1..MaxDay

StoreNames == {"Metro", "StoreA"}

Amounts == {900, 1234}

VARIABLES
    today,          \* the processing date (new Date() / server clock)
    dbReceipts,     \* rows of table receipts
    edgePc,         \* where the edge function's handler stands
    edgeReq,        \* the request it is serving
    edgeVision,     \* how the OpenAI call of this request went
    edgeCalls,      \* OpenAI requests issued for this request
    edgeRow,        \* the row handed to supabase.insert
    edgeResp,       \* the Response returned
    corePc,         \* where the extraction core stands in its pipeline
    coreReq,        \* the upload it is processing: requested mode, configuration
    visionCand,     \* the vision path's result: not run, failed, or a candidate
    ocrText,        \* the raw text the OCR path returned
    regexCand,      \* the regex path's result: not run, or a candidate
    visionCalls,    \* calls made to the vision API for this upload
    ocrCalls,       \* calls made to the OCR engine for this upload
    final,          \* the reconciler's output: a record or a structured failure
    processingDate, \* the date the reconciler read from the clock
    view,           \* App state: the screen shown
    receipts,       \* App state: the list last fetched
    currentReceipt, \* App state: the receipt under review
    isLoading,      \* App state
    progress,       \* App state
    message,        \* App state: the banner, by its type (info, success, error)
    backendStatus,  \* App state
    editingReceipt, \* App state: the list receipt being edited
    srvReceipts,    \* the receipts the backend stores (GET /api/receipts)
    hcPc,           \* where checkBackendHealth stands
    effFetch,       \* fetchReceipts calls of the [backendStatus] effect in flight
    upl,            \* the handleFileUpload call in progress
    uplTimer,       \* the setTimeout handleFileUpload scheduled
    save,           \* the handleSaveReceipt call in progress
    saveTimer,      \* the setTimeout handleSaveReceipt scheduled is pending
    imgIn,          \* the decoded image handed to convertImageToJPEG
    imgOut,         \* how convertImageToJPEG settled
    reviewReceipt,  \* the receipt the review screen shows
    dateLabel,      \* whether the review screen rendered the date's label
    apiCall,        \* what the network does to the apiRequest call in progress
    apiResult,      \* how that apiRequest call settled
    chartReceipts,  \* the receipts list getCategoryData reads
    chartData,      \* what getCategoryData returned
    isDeleting,     \* App state: the id whose delete button shows the spinner
    delCalls,       \* handleDeleteReceipt calls in progress, by id and await
    delStored,      \* ids of the receipts the backend stores
    delShown,       \* ids of the receipts the list view shows
    delMsgTimers    \* pending setTimeout(() => setMessage(null)) of deletes

edgeVars == <<edgePc, edgeReq, edgeVision, edgeCalls, edgeRow, edgeResp>>

coreVars == <<corePc, coreReq, visionCand, ocrText, regexCand,
              visionCalls, ocrCalls, final, processingDate>>

appVars == <<view, receipts, currentReceipt, isLoading, progress, message,
             backendStatus, editingReceipt, srvReceipts, hcPc, effFetch,
             upl, uplTimer, save, saveTimer>>

apiVars == <<apiCall, apiResult>>

chartVars == <<chartReceipts, chartData>>

delVars == <<isDeleting, delCalls, delStored, delShown, delMsgTimers>>

clientVars == <<imgIn, imgOut, reviewReceipt, dateLabel, apiVars, chartVars, delVars>>

vars == <<today, dbReceipts, edgeVars, coreVars, appVars, clientVars>>

\* ------------------------------------------------------------------------
\* Table receipts (supabase/migrations/001_create_receipts_table.sql)
\* ------------------------------------------------------------------------
\* The NOT NULL columns of the table: store_name, total_amount, date.
NotNullOk(row) ==
    /\ ~IsNone(row.store_name)
    /\ ~IsNone(row.total_amount)
    /\ ~IsNone(row.date)

\* INSERT: id is BIGSERIAL, the row is stored only if the constraints hold.
InsertRow(table, row) ==
    Append(table, [id |-> Len(table) + 1,
                   store_name |-> row.store_name,
                   total_amount |-> row.total_amount,
                   date |-> row.date])

\* The clock reaches the next day.
DayPasses ==
    /\ today < MaxDay
    /\ today' = today + 1
    /\ UNCHANGED <<clientVars, appVars, dbReceipts, edgeVars, coreVars>>

\* ------------------------------------------------------------------------
\* receipt-upload edge function (src/unnamed/part_001)
\* ------------------------------------------------------------------------
NoResp == [status |-> 0, success |-> FALSE, data |-> None, error |-> FALSE]

NoRow == [store_name |-> None, total_amount |-> None, date |-> None]

NoReq == [method |-> "none", ocrTotal |-> None]

\* The JSON the OpenAI endpoint may answer with, as the handler reads it:
\*   error_payload  no choices array (an API error object)
\*   content_null   choices[0].message.content is null
\*   content_text   content is a string: its .store_name etc. are undefined
\*   content_object content carries the three properties, each possibly absent
AiResults ==
    {[shape |-> s, store_name |-> None, total_amount |-> None, date |-> None] :
        s \in {"error_payload", "content_null", "content_text"}}
    \cup
    {[shape |-> "content_object", store_name |-> n, total_amount |-> a, date |-> d] :
        n \in Opt(StoreNames \cup {""}), a \in Opt(Amounts), d \in Opt(Days)}

\* Reading aiResult.choices[0].message.content.<field> throws a TypeError
\* when choices is missing or content is null.
ContentReadable(ai) == ai.shape \in {"content_text", "content_object"}

\* The catch block: status 400 with the error's message.
ErrorResponse == [status |-> 400, success |-> FALSE, data |-> None, error |-> TRUE]

\* A request arrives.  OPTIONS is answered at once; anything else starts the
\* OpenAI call.  ocrTotal is the total an OCR pass over the uploaded image
\* would read (the handler never looks at it).
ServeReceive ==
    /\ edgePc \in {"idle", "responded"}
    /\ Len(dbReceipts) < MaxRows
    /\ \E m \in {"OPTIONS", "POST"}, t \in Opt(Amounts) :
        /\ edgeReq' = [method |-> m, ocrTotal |-> t]
        /\ IF m = "OPTIONS"
           THEN /\ edgePc' = "responded"
                /\ edgeResp' = [status |-> 200, success |-> FALSE,
                                data |-> None, error |-> FALSE]
                /\ edgeCalls' = 0
           ELSE /\ edgePc' = "awaitOpenAI"
                /\ edgeResp' = NoResp
                /\ edgeCalls' = 1
    /\ edgeVision' = "none"
    /\ edgeRow' = NoRow
    /\ UNCHANGED <<clientVars, appVars, today, dbReceipts, coreVars>>

\* The row built from the parsed answer, or the TypeError reading it throws.
ServeReadsAnswer(ai) ==
    IF ContentReadable(ai)
    THEN /\ edgeVision' = "answered"
         /\ edgePc' = "awaitInsert"
         /\ edgeRow' = [store_name |-> ai.store_name,
                        total_amount |-> ai.total_amount,
                        date |-> ai.date]
         /\ UNCHANGED edgeResp
    ELSE /\ edgeVision' = "malformed"
         /\ edgePc' = "responded"
         /\ edgeResp' = ErrorResponse
         /\ UNCHANGED edgeRow

\* Mutant of ServeOpenAiSettles: a rejected fetch is issued a second time.
ServeOpenAiSettlesWithRetry ==
    /\ edgePc = "awaitOpenAI"
    /\ \/ /\ edgeCalls < 2
          /\ edgeCalls' = edgeCalls + 1
          /\ UNCHANGED <<edgeVision, edgePc, edgeResp, edgeRow>>
       \/ /\ edgeVision' \in {"fetch_rejected", "json_rejected"}
          /\ edgePc' = "responded"
          /\ edgeResp' = ErrorResponse
          /\ UNCHANGED <<edgeRow, edgeCalls>>
       \/ /\ \E ai \in AiResults : ServeReadsAnswer(ai)
          /\ UNCHANGED edgeCalls
    /\ UNCHANGED <<clientVars, appVars, today, dbReceipts, edgeReq, coreVars>>

\* await fetch(...) settles, then await openaiResponse.json() settles, then
\* the row is built and handed to insert.  fetch rejects on a network error
\* or timeout; it resolves on every HTTP status, so an auth or quota error
\* arrives as an error payload.
ServeOpenAiSettles ==
    /\ edgePc = "awaitOpenAI"
    /\ \/ /\ edgeVision' = "fetch_rejected"
          /\ edgePc' = "responded"
          /\ edgeResp' = ErrorResponse
          /\ UNCHANGED edgeRow
       \/ /\ edgeVision' = "json_rejected"
          /\ edgePc' = "responded"
          /\ edgeResp' = ErrorResponse
          /\ UNCHANGED edgeRow
       \/ \E ai \in AiResults : ServeReadsAnswer(ai)
    /\ UNCHANGED <<clientVars, appVars, today, dbReceipts, edgeReq, edgeCalls, coreVars>>

\* Mutant of ServeInsertSettles: without `if (error) throw error` the success
\* envelope is returned whatever insert reported.
ServeInsertSettlesIgnoringError ==
    /\ edgePc = "awaitInsert"
    /\ \/ /\ NotNullOk(edgeRow)
          /\ dbReceipts' = InsertRow(dbReceipts, edgeRow)
       \/ UNCHANGED dbReceipts
    /\ edgeResp' = [status |-> 200, success |-> TRUE, data |-> None, error |-> FALSE]
    /\ edgePc' = "responded"
    /\ UNCHANGED <<clientVars, appVars, today, edgeReq, edgeVision, edgeCalls, edgeRow, coreVars>>

\* await supabase.from('receipts').insert([...]) settles.  Without .select()
\* the returned data is null.  `if (error) throw error` leads to the catch.
ServeInsertSettles ==
    /\ edgePc = "awaitInsert"
    /\ \/ /\ NotNullOk(edgeRow)
          /\ dbReceipts' = InsertRow(dbReceipts, edgeRow)
          /\ edgeResp' = [status |-> 200, success |-> TRUE,
                          data |-> None, error |-> FALSE]
       \/ /\ ~NotNullOk(edgeRow)
          /\ edgeResp' = ErrorResponse
          /\ UNCHANGED dbReceipts
       \/ /\ edgeResp' = ErrorResponse      \* any other database error
          /\ UNCHANGED dbReceipts
    /\ edgePc' = "responded"
    /\ UNCHANGED <<clientVars, appVars, today, edgeReq, edgeVision, edgeCalls, edgeRow, coreVars>>

\* ------------------------------------------------------------------------
\* Extraction decision core (spec.md sections 3-7; its code is not among the
\* sources)
\* ------------------------------------------------------------------------
Categories == {"transportation", "dining"}

\* The store name printed on the receipts of the model, and the day printed.
PrintedStore == "Metro"

PrintedDay == 1

\* A numeric token as the vision model or the OCR text spells it: an optional
\* currency mark (yen sign, trailing currency unit) and digit groups between
\* thousands separators, "1,234" being <<1, 234>>.
RawAmounts ==
    {[mark |-> "yen", groups |-> <<1, 234>>],
     [mark |-> "unit", groups |-> <<900>>]}

RECURSIVE GroupsValue(_)
GroupsValue(groups) ==
    IF groups = <<>> THEN 0
    ELSE GroupsValue(SubSeq(groups, 1, Len(groups) - 1)) * 1000 + groups[Len(groups)]

\* Numeric normalisation: mark and separators dropped, a plain decimal left.
NormalizeAmount(tok) == GroupsValue(tok.groups)

\* A candidate record, every field optional.
NoCandidate ==
    [store_name |-> None, date |-> None, total_amount |-> None,
     expense_category |-> None]

NotRun == [status |-> "none", rec |-> NoCandidate]

Failed == [status |-> "failed", rec |-> NoCandidate]

\* What the vision API call can come back with: a transport-level failure, or
\* text holding a payload (bare or wrapped in a code fence), possibly not
\* machine-parseable at all.
VisionResponses ==
    {[kind |-> k, wrap |-> "bare", store_name |-> None, date |-> None,
      total_amount |-> None, expense_category |-> None] :
        k \in {"network", "quota", "timeout", "malformed"}}
    \cup
    {[kind |-> "payload", wrap |-> w, store_name |-> n, date |-> d,
      total_amount |-> a, expense_category |-> c] :
        w \in {"bare", "fenced"}, n \in Opt({"", "StoreA"}),
        d \in Opt(Days), a \in Opt(RawAmounts), c \in Opt({"dining"})}

\* 4.3 vision path: fences are stripped, a missing (or blank) field is null,
\* numeric strings are normalised; every failure is reported, never raised.
ParseVision(resp) ==
    IF resp.kind # "payload" THEN Failed
    ELSE [status |-> "ok",
          rec |-> [store_name |-> IF resp.store_name = Some("") THEN None
                                  ELSE resp.store_name,
                   date |-> resp.date,
                   total_amount |-> IF IsNone(resp.total_amount) THEN None
                                    ELSE Some(NormalizeAmount(Val(resp.total_amount))),
                   expense_category |-> resp.expense_category]]

\* Lines of OCR text: a text line, a date in one of the notations, or a
\* currency-marked amount with the keyword of its line.
OcrLines ==
    {[kind |-> "text", text |-> PrintedStore, day |-> PrintedDay, kw |-> "none",
      tok |-> [mark |-> "none", groups |-> <<>>]],
     [kind |-> "date", text |-> "", day |-> PrintedDay, kw |-> "none",
      tok |-> [mark |-> "none", groups |-> <<>>]]}
    \cup
    {[kind |-> "amount", text |-> "", day |-> PrintedDay, kw |-> k, tok |-> t] :
        k \in {"total", "subtotal"}, t \in RawAmounts}

RECURSIVE SeqsUpTo(_, _)
SeqsUpTo(S, n) ==
    IF n = 0 THEN {<<>>}
    ELSE LET shorter == SeqsUpTo(S, n - 1)
         IN  shorter \cup {Append(s, x) : s \in {t \in shorter : Len(t) = n - 1}, x \in S}

\* Lines an OCR text may have.
MaxLines == 2

OcrTexts == SeqsUpTo(OcrLines, MaxLines)

MaxOf(S) == CHOOSE m \in S : \A x \in S : x <= m

\* Mutant of RegexAmount: the maximum is taken whatever the keywords.
RegexAmountTakesMaximum(text) ==
    LET amounts == SelectSeq(text, LAMBDA l : l.kind = "amount")
    IN  IF amounts # <<>>
        THEN Some(MaxOf({NormalizeAmount(amounts[i].tok) : i \in 1..Len(amounts)}))
        ELSE None

\* 4.4 amount: the amount of the first total-keyword line, else the maximum.
RegexAmount(text) ==
    LET amounts == SelectSeq(text, LAMBDA l : l.kind = "amount")
        totals  == SelectSeq(amounts, LAMBDA l : l.kw = "total")
    IN  IF totals # <<>> THEN Some(NormalizeAmount(totals[1].tok))
        ELSE IF amounts # <<>>
             THEN Some(MaxOf({NormalizeAmount(amounts[i].tok) : i \in 1..Len(amounts)}))
             ELSE None

\* 4.4 date: the first date notation found.
RegexDate(text) ==
    LET dates == SelectSeq(text, LAMBDA l : l.kind = "date")
    IN  IF dates # <<>> THEN Some(dates[1].day) ELSE None

\* 4.4 store name: the first non-empty, non-numeric text line.
RegexStore(text) ==
    LET names == SelectSeq(text, LAMBDA l : l.kind = "text" /\ l.text # "")
    IN  IF names # <<>> THEN Some(names[1].text) ELSE None

\* 4.4 category: keyword match of the store name against the curated mapping.
CategoryOf(store) ==
    IF store = Some(PrintedStore) THEN Some("transportation") ELSE None

\* 4.4 regex path: never fails, at worst an empty candidate.
RegexExtract(text) ==
    [status |-> "ok",
     rec |-> [store_name |-> RegexStore(text),
              date |-> RegexDate(text),
              total_amount |-> RegexAmount(text),
              expense_category |-> CategoryOf(RegexStore(text))]]

\* Mutant of AttemptPlan: an AI-only request falls through to OCR as well.
AttemptPlanAiFallsThrough(mode, visionAvailable) ==
    CASE mode = "ocr"    -> [vision |-> FALSE, ocr |-> "always"]
      [] mode = "hybrid" -> [vision |-> visionAvailable, ocr |-> "always"]
      [] OTHER           -> IF visionAvailable
                            THEN [vision |-> TRUE, ocr |-> "on_failure"]
                            ELSE [vision |-> FALSE, ocr |-> "always"]

\* 4.6 mode selector: which paths to attempt.  ocr is "always", "on_failure"
\* (of the vision path) or "never".
AttemptPlan(mode, visionAvailable) ==
    CASE mode = "ocr"    -> [vision |-> FALSE, ocr |-> "always"]
      [] mode = "ai"     -> [vision |-> visionAvailable, ocr |-> "never"]
      [] mode = "hybrid" -> [vision |-> visionAvailable, ocr |-> "always"]
      [] OTHER           -> IF visionAvailable
                            THEN [vision |-> TRUE, ocr |-> "on_failure"]
                            ELSE [vision |-> FALSE, ocr |-> "always"]

Placeholder == "Unknown store"

HasTotal(c) == c.status = "ok" /\ ~IsNone(c.rec.total_amount)

Fields == {"store_name", "date", "total_amount", "expense_category"}

\* Mutant of MergeField: the other candidate's value wins over the base's.
MergeFieldOtherFirst(base, other, f) ==
    IF other.status = "ok" /\ ~IsNone(other.rec[f]) THEN other.rec[f]
    ELSE base.rec[f]

\* 4.5 merge: the candidate that has a total is the base, the vision one
\* first; a field it populated keeps its value, a null field is back-filled
\* from the other candidate when that one ran.
MergeField(base, other, f) ==
    IF ~IsNone(base.rec[f]) THEN base.rec[f]
    ELSE IF other.status = "ok" THEN other.rec[f] ELSE None

Merge(v, r) ==
    IF HasTotal(v) THEN [f \in Fields |-> MergeField(v, r, f)]
    ELSE [f \in Fields |-> MergeField(r, v, f)]

BackFilled(base, other) ==
    {f \in Fields : IsNone(base.rec[f]) /\ other.status = "ok" /\ ~IsNone(other.rec[f])}

\* Mutant of ModeOf: hybrid whenever both paths ran, whatever was merged.
ModeOfByPathsRun(v, r) ==
    IF v.status = "ok" /\ r.status = "ok" THEN "hybrid"
    ELSE IF HasTotal(v) THEN "ai" ELSE "ocr"

\* 4.5 processing_mode: ai when vision alone supplied the fields, ocr when
\* the regex path alone did, hybrid when fields were merged from both.
ModeOf(v, r) ==
    IF HasTotal(v)
    THEN IF BackFilled(v, r) = {} THEN "ai" ELSE "hybrid"
    ELSE IF BackFilled(r, v) = {} THEN "ocr" ELSE "hybrid"

\* Mutant of FinalStore: no placeholder is substituted.
FinalStoreAsMerged(m) == m["store_name"]

\* 4.5 a missing store name becomes the placeholder.
FinalStore(m) ==
    IF IsNone(m["store_name"]) THEN Some(Placeholder) ELSE m["store_name"]

\* Mutant of FinalDate: the record is always dated with the processing date.
FinalDateIsProcessingDate(m, day) == Some(day)

\* 4.5 a missing date becomes the processing date, and that is flagged.
FinalDate(m, day) ==
    IF IsNone(m["date"]) THEN Some(day) ELSE m["date"]

\* Mutant of DateWasDefaulted: the substitution is never flagged.
DateNeverFlagged(m) == FALSE

DateWasDefaulted(m) == IsNone(m["date"])

NoFinal == [status |-> "none", record |-> None]

\* Mutant of Usable: any candidate at all makes the record usable.
UsableAnyCandidate(v, r) == v.status = "ok" \/ r.status = "ok"

\* 4.5 the one hard failure: neither candidate has a total.
Usable(v, r) == HasTotal(v) \/ HasTotal(r)

\* 4.5 reconciler: one final record, or the structured failure.
Reconcile(v, r, day) ==
    IF ~Usable(v, r)
    THEN [status |-> "failed", record |-> None]
    ELSE LET m == Merge(v, r)
         IN  [status |-> "ok",
              record |-> Some(
                [store_name |-> FinalStore(m),
                 date |-> FinalDate(m, day),
                 date_was_defaulted |-> DateWasDefaulted(m),
                 total_amount |-> m["total_amount"],
                 expense_category |-> m["expense_category"],
                 processing_mode |-> ModeOf(v, r)])]

NoCoreReq == [mode |-> "default", visionAvailable |-> FALSE, imageEmpty |-> FALSE]

Plan == AttemptPlan(coreReq.mode, coreReq.visionAvailable)

\* An upload reaches the core.  4.1: zero-byte input is rejected before any
\* extraction; otherwise the mode selector fixes the first path.  Uploads are
\* independent, stateless units of work (section 5): a behaviour follows one.
CoreReceive ==
    /\ corePc = "idle"
    /\ \E m \in {"default", "ocr", "ai", "hybrid"}, va \in BOOLEAN, empty \in BOOLEAN :
        LET plan == AttemptPlan(m, va)
        IN  /\ coreReq' = [mode |-> m, visionAvailable |-> va, imageEmpty |-> empty]
            /\ IF empty
               THEN /\ corePc' = "done"
                    /\ final' = [status |-> "rejected", record |-> None]
               ELSE /\ corePc' = IF plan.vision THEN "vision"
                                 ELSE IF plan.ocr = "always" THEN "ocr"
                                 ELSE "reconcile"
                    /\ final' = NoFinal
    /\ visionCand' = NotRun
    /\ regexCand' = NotRun
    /\ ocrText' = <<>>
    /\ visionCalls' = 0
    /\ ocrCalls' = 0
    /\ UNCHANGED <<clientVars, appVars, today, dbReceipts, edgeVars, processingDate>>

\* One blocking call to the vision API.
CoreVision ==
    /\ corePc = "vision"
    /\ \E resp \in VisionResponses :
        /\ visionCand' = ParseVision(resp)
        /\ corePc' = IF \/ Plan.ocr = "always"
                        \/ Plan.ocr = "on_failure" /\ ParseVision(resp).status = "failed"
                     THEN "ocr" ELSE "reconcile"
    /\ visionCalls' = visionCalls + 1
    /\ UNCHANGED <<clientVars, appVars, today, dbReceipts, edgeVars, coreReq, ocrText, regexCand,
                   ocrCalls, final, processingDate>>

\* One call to the OCR engine (4.2: an unavailable engine yields empty text),
\* then the regex path over its text.
CoreOcr ==
    /\ corePc = "ocr"
    /\ \E text \in OcrTexts :
        /\ ocrText' = text
        /\ regexCand' = RegexExtract(text)
    /\ ocrCalls' = ocrCalls + 1
    /\ corePc' = "reconcile"
    /\ UNCHANGED <<clientVars, appVars, today, dbReceipts, edgeVars, coreReq, visionCand,
                   visionCalls, final, processingDate>>

\* The reconciler emits the final record, which the caller persists, or the
\* structured failure.
CoreReconcile ==
    /\ corePc = "reconcile"
    /\ final' = Reconcile(visionCand, regexCand, today)
    /\ processingDate' = today
    /\ LET row == IF final'.status = "ok"
                  THEN [store_name |-> Val(final'.record).store_name,
                        total_amount |-> Val(final'.record).total_amount,
                        date |-> Val(final'.record).date]
                  ELSE NoRow
       IN  dbReceipts' = IF final'.status = "ok" /\ NotNullOk(row)
                         THEN InsertRow(dbReceipts, row)
                         ELSE dbReceipts
    /\ corePc' = "done"
    /\ UNCHANGED <<clientVars, appVars, today, edgeVars, coreReq, visionCand, ocrText, regexCand,
                   visionCalls, ocrCalls>>

\* ------------------------------------------------------------------------
\* Browser front end: App.tsx with the api module of src/unnamed/part_005
\* ------------------------------------------------------------------------
\* A receipt as the front end holds it: the id the backend gave it and one
\* editable field.
Receipt(i, s) == [id |-> i, store_name |-> s]

\* Receipts the backend may come to store.
MaxStored == 1

\* File sizes, in MB.
FileSizes == {5, 20, 60}

\* uploadReceipt: const maxSize = 50 * 1024 * 1024.
UploadMaxMB == 50

\* The files a user can pick: a JPEG or a HEIC of each size, a small JPEG
\* whose name ends in .heic, and a JPEG of zero bytes.
Files ==
    {[type |-> t, ext |-> IF t = "image/jpeg" THEN "jpg" ELSE "heic", size |-> z] :
        t \in {"image/jpeg", "image/heic"}, z \in FileSizes}
    \cup {[type |-> "image/jpeg", ext |-> "heic", size |-> 5],
          [type |-> "image/jpeg", ext |-> "jpg", size |-> 0]}

\* uploadReceipt: const needsConversion = ...
NeedsConversion(f) ==
    \/ f.type \notin {"image/jpeg", "image/png"}
    \/ f.ext \in {"heic", "heif"}
    \/ f.type = "application/octet-stream"

\* convertImageToJPEG resolves with the file itself when it is a JPEG or PNG.
ReturnsUnchanged(f) == f.type \in {"image/jpeg", "image/png"}

\* uploadReceipt: if (processedFile.size > maxSize) throw.
TooLarge(f) == f.size > UploadMaxMB

NoResponse == [kind |-> "none", success |-> FALSE, data |-> None, error |-> "none"]

\* apiRequest threw (fetch TypeError or ApiError for a non-2xx status), or
\* uploadReceipt threw on its size check.
Thrown == [kind |-> "thrown", success |-> FALSE, data |-> None, error |-> "request"]

\* uploadReceipt threw its own 'file too large' error.
TooLargeError == [kind |-> "thrown", success |-> FALSE, data |-> None, error |-> "size"]

Envelope(ok, d) == [kind |-> "envelope", success |-> ok, data |-> d, error |-> "none"]

NoFile == [type |-> "none", ext |-> "none", size |-> 0]

NoUpload == [pc |-> "idle", file |-> NoFile, conv |-> "none", sent |-> NoFile,
             posts |-> 0, startCurrent |-> None, resp |-> NoResponse]

NoSave == [pc |-> "idle", seen |-> "unknown", id |-> 0, data |-> None]

\* Mutant of UploadBranch: the success flag alone decides.
UploadBranchOnSuccessFlag(resp) == IF resp.success THEN "review" ELSE "home"

\* handleFileUpload: if (response.success && response.data) ... else ...;
\* a thrown error goes to catch.  The value is the view its timer will set.
UploadBranch(resp) ==
    IF resp.kind = "envelope" /\ resp.success /\ resp.data # None
    THEN "review" ELSE "home"

\* What handleFileUpload does once uploadReceipt has settled with resp, the
\* progress bar standing at prog: clearInterval, then the success branch, the
\* failure branch or the catch block, each scheduling its timer.  note tells
\* whether response.message includes the date-defaulted sentence.
UploadContinues(resp, note, prog) ==
    /\ progress' = IF resp.kind = "envelope" THEN 100 ELSE prog
    /\ IF UploadBranch(resp) = "review"
       THEN /\ currentReceipt' = resp.data
            /\ message' = IF note = "dateDefaulted"
                          THEN Some("info") ELSE Some("success")
       ELSE /\ UNCHANGED currentReceipt
            /\ message' = Some("error")
    /\ uplTimer' = UploadBranch(resp)

\* uploadReceipt after the conversion step, with the file it will send: the
\* size check throws, or the POST is issued.
UploadChecksSize(file, processed, conv, start, prog, msg) ==
    IF TooLarge(processed)
    THEN /\ upl' = [pc |-> "settled", file |-> file, conv |-> conv, sent |-> NoFile,
                    posts |-> 0, startCurrent |-> start, resp |-> TooLargeError]
         /\ UploadContinues(TooLargeError, "plain", prog)
    ELSE /\ upl' = [pc |-> "request", file |-> file, conv |-> conv, sent |-> processed,
                    posts |-> 1, startCurrent |-> start, resp |-> NoResponse]
         /\ progress' = prog
         /\ message' = msg
         /\ UNCHANGED <<currentReceipt, uplTimer>>

\* The user picks a file on the home screen.  Offline, only the message is
\* set.  Online, the processing view is shown and uploadReceipt runs up to
\* its first pending await: the conversion, or the POST.
HandleFileUpload ==
    /\ view = "home"
    /\ ~isLoading
    /\ upl.pc = "idle"
    /\ IF backendStatus # "online"
       THEN /\ message' = Some("error")
            /\ UNCHANGED <<view, isLoading, progress, currentReceipt, upl, uplTimer>>
       ELSE /\ view' = "processing"
            /\ isLoading' = TRUE
            /\ \E file \in Files :
                IF NeedsConversion(file) /\ ~ReturnsUnchanged(file)
                THEN /\ upl' = [NoUpload EXCEPT !.pc = "converting", !.file = file,
                                                !.startCurrent = currentReceipt]
                     /\ progress' = 0
                     /\ message' = Some("info")
                     /\ UNCHANGED <<currentReceipt, uplTimer>>
                ELSE UploadChecksSize(file, file, "none", currentReceipt, 0,
                                      Some("info"))
    /\ UNCHANGED <<receipts, backendStatus, editingReceipt, srvReceipts, hcPc,
                   effFetch, save, saveTimer>>
    /\ UNCHANGED <<today, dbReceipts, edgeVars, coreVars, clientVars>>

\* Mutant of HandleTestUpload: the status is looked at after setProgress(0).
HandleTestUploadResetsProgressFirst ==
    /\ view = "home"
    /\ ~isLoading
    /\ upl.pc = "idle"
    /\ progress' = 0
    /\ IF backendStatus # "online"
       THEN /\ message' = Some("error")
            /\ UNCHANGED <<view, isLoading, upl>>
       ELSE /\ view' = "processing"
            /\ isLoading' = TRUE
            /\ message' = Some("info")
            /\ upl' = [NoUpload EXCEPT !.pc = "testRequest", !.posts = 1,
                                       !.startCurrent = currentReceipt]
    /\ UNCHANGED <<receipts, currentReceipt, backendStatus, editingReceipt,
                   srvReceipts, hcPc, effFetch, uplTimer, save, saveTimer>>
    /\ UNCHANGED <<today, dbReceipts, edgeVars, coreVars, clientVars>>

\* The user presses the test button on the home screen: handleTestUpload,
\* the same steps around testUploadReceipt, which posts no file.
HandleTestUpload ==
    /\ view = "home"
    /\ ~isLoading
    /\ upl.pc = "idle"
    /\ IF backendStatus # "online"
       THEN /\ message' = Some("error")
            /\ UNCHANGED <<view, isLoading, progress, upl>>
       ELSE /\ view' = "processing"
            /\ isLoading' = TRUE
            /\ progress' = 0
            /\ message' = Some("info")
            /\ upl' = [NoUpload EXCEPT !.pc = "testRequest", !.posts = 1,
                                       !.startCurrent = currentReceipt]
    /\ UNCHANGED <<receipts, currentReceipt, backendStatus, editingReceipt,
                   srvReceipts, hcPc, effFetch, uplTimer, save, saveTimer>>
    /\ UNCHANGED <<today, dbReceipts, edgeVars, coreVars, clientVars>>

\* How convertImageToJPEG can settle for a file it has to decode: with a new
\* JPEG file of some size, or with a rejection.
ConversionOutcomes ==
    {[kind |-> "converted",
      file |-> [type |-> "image/jpeg", ext |-> "jpg", size |-> z]] : z \in FileSizes}
    \cup {[kind |-> "rejected", file |-> NoFile]}

\* Mutant of AfterConversion: the catch block does not restore the original.
AfterConversionLosesFile(file, outcome) == outcome.file

\* uploadReceipt: processedFile = await convertImageToJPEG(file), and in the
\* catch block processedFile = file.
AfterConversion(file, outcome) ==
    IF outcome.kind = "converted" THEN outcome.file ELSE file

\* convertImageToJPEG settles and uploadReceipt goes on to its size check.
ConvertSettles ==
    /\ upl.pc = "converting"
    /\ \E outcome \in ConversionOutcomes :
        UploadChecksSize(upl.file, AfterConversion(upl.file, outcome), outcome.kind,
                         upl.startCurrent, progress, message)
    /\ UNCHANGED <<view, receipts, isLoading, backendStatus, editingReceipt,
                   srvReceipts, hcPc, effFetch, save, saveTimer>>
    /\ UNCHANGED <<today, dbReceipts, edgeVars, coreVars, clientVars>>

\* Mutant of ProgressTick: the interval is not cleared when the upload
\* settles, and its updater goes on running.
ProgressTickNeverCleared ==
    /\ upl.pc # "idle"
    /\ progress' = IF progress >= 90 THEN 90 ELSE progress + 10
    /\ UNCHANGED <<view, receipts, currentReceipt, isLoading, message,
                   backendStatus, editingReceipt, srvReceipts, hcPc, effFetch,
                   upl, uplTimer, save, saveTimer>>
    /\ UNCHANGED <<today, dbReceipts, edgeVars, coreVars, clientVars>>

\* The interval of handleFileUpload or handleTestUpload ticks while the
\* upload is pending.
ProgressTick ==
    /\ upl.pc \in {"converting", "request", "testRequest"}
    /\ progress < 90
    /\ progress' = progress + 10
    /\ UNCHANGED <<view, receipts, currentReceipt, isLoading, message,
                   backendStatus, editingReceipt, srvReceipts, hcPc, effFetch,
                   upl, uplTimer, save, saveTimer>>
    /\ UNCHANGED <<today, dbReceipts, edgeVars, coreVars, clientVars>>

\* What the upload endpoint can answer while the store holds rows: a stored
\* receipt (read off the image, so with the printed store name) in a success
\* envelope, with or without the date-defaulted note; a stored row with no
\* data returned (the edge function's envelope); a failure envelope; or no
\* usable answer at all.
UploadAnswers(rows) ==
    LET r == Receipt(Len(rows) + 1, PrintedStore)
    IN  {[row |-> Some(r), note |-> n, resp |-> Envelope(TRUE, Some(r))] :
            n \in {"plain", "dateDefaulted"}}
        \cup {[row |-> Some(r), note |-> "plain", resp |-> Envelope(TRUE, None)],
              [row |-> None, note |-> "plain", resp |-> Envelope(FALSE, None)],
              [row |-> None, note |-> "plain", resp |-> Thrown]}

\* The POST to /api/receipts/upload, or to /api/receipts/test, settles and
\* the handler continues; handleTestUpload does not look for the
\* date-defaulted sentence.
UploadRequestSettles ==
    /\ upl.pc \in {"request", "testRequest"}
    /\ \E ans \in UploadAnswers(srvReceipts) :
        /\ ans.row # None => Len(srvReceipts) < MaxStored
        /\ srvReceipts' = IF ans.row = None THEN srvReceipts
                          ELSE Append(srvReceipts, Val(ans.row))
        /\ upl' = [upl EXCEPT !.pc = "settled", !.file = NoFile, !.conv = "none",
                              !.sent = NoFile, !.resp = ans.resp]
        /\ UploadContinues(ans.resp,
                           IF upl.pc = "testRequest" THEN "plain" ELSE ans.note,
                           progress)
    /\ UNCHANGED <<view, receipts, isLoading, backendStatus, editingReceipt,
                   hcPc, effFetch, save, saveTimer>>
    /\ UNCHANGED <<today, dbReceipts, edgeVars, coreVars, clientVars>>

\* Mutant of UploadTimerFires: the callback only sets the view.
UploadTimerFiresKeepsLoading ==
    /\ uplTimer # "none"
    /\ view' = uplTimer
    /\ uplTimer' = "none"
    /\ upl' = NoUpload
    /\ UNCHANGED <<receipts, currentReceipt, isLoading, progress, message,
                   backendStatus, editingReceipt, srvReceipts, hcPc, effFetch,
                   save, saveTimer>>
    /\ UNCHANGED <<today, dbReceipts, edgeVars, coreVars, clientVars>>

\* The timer of handleFileUpload or handleTestUpload fires: setView,
\* setIsLoading(false).
UploadTimerFires ==
    /\ uplTimer # "none"
    /\ view' = uplTimer
    /\ isLoading' = FALSE
    /\ uplTimer' = "none"
    /\ upl' = NoUpload
    /\ UNCHANGED <<receipts, currentReceipt, progress, message, backendStatus,
                   editingReceipt, srvReceipts, hcPc, effFetch, save, saveTimer>>
    /\ UNCHANGED <<today, dbReceipts, edgeVars, coreVars, clientVars>>

\* Fetches of the [backendStatus] effect that may be in flight together.
MaxFetches == 1

\* fetchReceipts once getReceipts has settled: an answer carrying the list
\* replaces receipts, any other answer leaves it.
FetchedList(kind, old, rows) == IF kind = "list" THEN rows ELSE old

FetchAnswers == {"list", "other", "thrown"}

\* The buttons that only change the view (all disabled while isLoading).
SetView ==
    /\ ~isLoading
    /\ \/ view = "home" /\ view' \in {"list", "chart"}
       \/ view \in {"list", "chart"} /\ view' = "home"
    /\ UNCHANGED <<receipts, currentReceipt, isLoading, progress, message,
                   backendStatus, editingReceipt, srvReceipts, hcPc, effFetch,
                   upl, uplTimer, save, saveTimer>>
    /\ UNCHANGED <<today, dbReceipts, edgeVars, coreVars, clientVars>>

\* The back button of the review screen.
ReviewBack ==
    /\ view = "review"
    /\ ~isLoading
    /\ view' = "home"
    /\ editingReceipt' = None
    /\ UNCHANGED <<receipts, currentReceipt, isLoading, progress, message,
                   backendStatus, srvReceipts, hcPc, effFetch,
                   upl, uplTimer, save, saveTimer>>
    /\ UNCHANGED <<today, dbReceipts, edgeVars, coreVars, clientVars>>

\* The edit button of a row of the list.
HandleEditReceipt ==
    /\ view = "list"
    /\ ~isLoading
    /\ \E i \in 1..Len(receipts) :
        /\ currentReceipt' = Some(receipts[i])
        /\ editingReceipt' = Some(receipts[i])
    /\ view' = "review"
    /\ UNCHANGED <<receipts, isLoading, progress, message, backendStatus,
                   srvReceipts, hcPc, effFetch, upl, uplTimer, save, saveTimer>>
    /\ UNCHANGED <<today, dbReceipts, edgeVars, coreVars, clientVars>>

\* An input of the review form changes a field of currentReceipt.
HandleUpdateReceipt ==
    /\ view = "review"
    /\ ~isLoading
    /\ currentReceipt # None
    /\ \E s \in StoreNames :
        /\ s # Val(currentReceipt).store_name
        /\ currentReceipt' = Some([Val(currentReceipt) EXCEPT !.store_name = s])
    /\ UNCHANGED <<view, receipts, isLoading, progress, message, backendStatus,
                   editingReceipt, srvReceipts, hcPc, effFetch,
                   upl, uplTimer, save, saveTimer>>
    /\ UNCHANGED <<today, dbReceipts, edgeVars, coreVars, clientVars>>

\* The end of handleSaveReceipt's success path: the message, and the timer
\* that will show the list.
SaveSucceeds ==
    /\ message' = Some("success")
    /\ saveTimer' = TRUE

\* The Save button.  With a receipt opened from the list (editingReceipt with
\* an id) the PUT is issued; otherwise only fetchReceipts is called, which
\* sends its GET when the status this render saw is online.  One call, with
\* its timer, is followed at a time.
HandleSaveReceipt ==
    /\ view = "review"
    /\ ~isLoading
    /\ save.pc = "idle"
    /\ ~saveTimer
    /\ currentReceipt # None
    /\ IF editingReceipt # None /\ Val(editingReceipt).id # 0
       THEN /\ isLoading' = TRUE
            /\ save' = [pc |-> "update", seen |-> backendStatus,
                        id |-> Val(editingReceipt).id, data |-> currentReceipt]
            /\ UNCHANGED <<message, saveTimer>>
       ELSE /\ UNCHANGED isLoading
            /\ IF backendStatus = "online"
               THEN /\ save' = [pc |-> "fetchNew", seen |-> backendStatus,
                                id |-> 0, data |-> currentReceipt]
                    /\ UNCHANGED <<message, saveTimer>>
               ELSE /\ save' = [NoSave EXCEPT !.data = currentReceipt]
                    /\ SaveSucceeds
    /\ UNCHANGED <<view, receipts, currentReceipt, progress, backendStatus,
                   editingReceipt, srvReceipts, hcPc, effFetch, upl, uplTimer>>
    /\ UNCHANGED <<today, dbReceipts, edgeVars, coreVars, clientVars>>

\* PUT /api/receipts/{id}: the stored receipt of that id takes the body's
\* fields.
PutReceipt(rows, id, body) ==
    [i \in 1..Len(rows) |->
        IF rows[i].id = id THEN [rows[i] EXCEPT !.store_name = body.store_name]
        ELSE rows[i]]

\* updateReceipt settles: a success envelope (the backend stored the body),
\* a failure envelope, or a thrown error.
SaveUpdateSettles ==
    /\ save.pc = "update"
    /\ \/ /\ srvReceipts' = PutReceipt(srvReceipts, save.id, Val(save.data))
          /\ IF save.seen = "online"
             THEN /\ save' = [save EXCEPT !.pc = "fetchEdit"]
                  /\ UNCHANGED <<message, saveTimer, editingReceipt, isLoading>>
             ELSE /\ save' = [NoSave EXCEPT !.data = save.data]
                  /\ SaveSucceeds
                  /\ editingReceipt' = None
                  /\ isLoading' = FALSE
       \/ /\ message' = Some("error")
          /\ isLoading' = FALSE
          /\ save' = NoSave
          /\ UNCHANGED <<srvReceipts, saveTimer, editingReceipt>>
    /\ UNCHANGED <<view, receipts, currentReceipt, progress, backendStatus,
                   hcPc, effFetch, upl, uplTimer>>
    /\ UNCHANGED <<today, dbReceipts, edgeVars, coreVars, clientVars>>

\* The getReceipts of handleSaveReceipt's fetchReceipts settles and the
\* handler runs to its end.
SaveFetchSettles ==
    /\ save.pc \in {"fetchEdit", "fetchNew"}
    /\ \E kind \in FetchAnswers :
        receipts' = FetchedList(kind, receipts, srvReceipts)
    /\ SaveSucceeds
    /\ IF save.pc = "fetchEdit"
       THEN editingReceipt' = None /\ isLoading' = FALSE
       ELSE UNCHANGED <<editingReceipt, isLoading>>
    /\ save' = [NoSave EXCEPT !.data = save.data]
    /\ UNCHANGED <<view, currentReceipt, progress, backendStatus, srvReceipts,
                   hcPc, effFetch, upl, uplTimer>>
    /\ UNCHANGED <<today, dbReceipts, edgeVars, coreVars, clientVars>>

\* The timer of handleSaveReceipt fires: setView('list'), setMessage(null).
SaveTimerFires ==
    /\ saveTimer
    /\ view' = "list"
    /\ message' = None
    /\ saveTimer' = FALSE
    /\ save' = NoSave
    /\ UNCHANGED <<receipts, currentReceipt, isLoading, progress, backendStatus,
                   editingReceipt, srvReceipts, hcPc, effFetch, upl, uplTimer>>
    /\ UNCHANGED <<today, dbReceipts, edgeVars, coreVars, clientVars>>

\* The effect on [backendStatus]: a change of the status calls fetchReceipts,
\* which sends its GET only when the new status is online.
StatusEffect(old, new) ==
    effFetch' = IF new # old /\ new = "online" THEN effFetch + 1 ELSE effFetch

\* A run of checkBackendHealth (on mount, and on every tick of its interval)
\* up to its second await: healthCheck settles with response.ok, or false
\* when fetch threw; the status is set; a healthy backend is then asked for
\* its API status.
HealthzSettles ==
    /\ hcPc = "idle"
    /\ effFetch < MaxFetches
    /\ \E isHealthy \in BOOLEAN :
        /\ backendStatus' = IF isHealthy THEN "online" ELSE "offline"
        /\ hcPc' = IF isHealthy THEN "apiStatus" ELSE "idle"
    /\ StatusEffect(backendStatus, backendStatus')
    /\ UNCHANGED <<view, receipts, currentReceipt, isLoading, progress, message,
                   editingReceipt, srvReceipts, upl, uplTimer, save, saveTimer>>
    /\ UNCHANGED <<today, dbReceipts, edgeVars, coreVars, clientVars>>

\* getApiStatus settles: its value is only logged; when it throws, the catch
\* block sets the status to offline.
ApiStatusSettles ==
    /\ hcPc = "apiStatus"
    /\ \E threw \in BOOLEAN :
        backendStatus' = IF threw THEN "offline" ELSE backendStatus
    /\ hcPc' = "idle"
    /\ StatusEffect(backendStatus, backendStatus')
    /\ UNCHANGED <<view, receipts, currentReceipt, isLoading, progress, message,
                   editingReceipt, srvReceipts, upl, uplTimer, save, saveTimer>>
    /\ UNCHANGED <<today, dbReceipts, edgeVars, coreVars, clientVars>>

\* The getReceipts of an effect's fetchReceipts settles.
EffectFetchSettles ==
    /\ effFetch > 0
    /\ effFetch' = effFetch - 1
    /\ \E kind \in FetchAnswers :
        /\ receipts' = FetchedList(kind, receipts, srvReceipts)
        /\ message' = IF kind = "thrown" THEN Some("error") ELSE message
    /\ UNCHANGED <<view, currentReceipt, isLoading, progress, backendStatus,
                   editingReceipt, srvReceipts, hcPc, upl, uplTimer, save, saveTimer>>
    /\ UNCHANGED <<today, dbReceipts, edgeVars, coreVars, clientVars>>

Next ==
    \/ HandleFileUpload
    \/ ConvertSettles
    \/ ProgressTick
    \/ UploadRequestSettles
    \/ UploadTimerFires
    \/ SetView
    \/ HandleTestUpload
    \/ ReviewBack
    \/ HandleEditReceipt
    \/ HandleUpdateReceipt
    \/ HandleSaveReceipt
    \/ SaveUpdateSettles
    \/ SaveFetchSettles
    \/ SaveTimerFires
    \/ HealthzSettles
    \/ ApiStatusSettles
    \/ EffectFetchSettles

\* ------------------------------------------------------------------------
\* Client-side image conversion (convertImageToJPEG) and the review screen
\* ------------------------------------------------------------------------
\* const maxSize = 4000
MaxSize == 4000

ImageTypes == {"image/jpeg", "image/png", "image/heic"}

\* Widths and heights in pixels, on both sides of maxSize.
Dims == {1, 3000, 4000, 4001, 6000, 8000}

NoImage == [type |-> "none", width |-> 0, height |-> 0]

Images == [type : ImageTypes, width : Dims, height : Dims]

NotConverted == [kind |-> "none", decoded |-> "none", type |-> "none",
                 width |-> 0, height |-> 0]

\* reject(new Error(...)): the image did not load, or toBlob yielded null.
Rejected(dec) == [kind |-> "rejected", decoded |-> dec, type |-> "none",
                  width |-> 0, height |-> 0]

Resolved(dec, t, w, h) == [kind |-> "resolved", decoded |-> dec, type |-> t,
                           width |-> w, height |-> h]

Larger(a, b) == IF a >= b THEN a ELSE b

\* width *= ratio with ratio = Math.min(maxSize / width, maxSize / height),
\* assigned to canvas.width, an unsigned long: the fraction is dropped.
Scaled(d, w, h) == (d * MaxSize) \div Larger(w, h)

\* The Promise of convertImageToJPEG: the file is loaded into an Image, drawn
\* on a canvas of at most maxSize on each side and encoded as JPEG. A canvas
\* with no pixels encodes to a null blob, which rejects.
DrawOnCanvas(img, decodes) ==
    IF ~decodes
    THEN Rejected("no")
    ELSE LET over == img.width > MaxSize \/ img.height > MaxSize
             w == IF over THEN Scaled(img.width, img.width, img.height) ELSE img.width
             h == IF over THEN Scaled(img.height, img.width, img.height) ELSE img.height
         IN  IF w = 0 \/ h = 0 THEN Rejected("yes")
             ELSE Resolved("yes", "image/jpeg", w, h)

\* convertImageToJPEG(file): a JPEG or PNG is returned as it is; any other
\* file goes through the canvas.
ConvertImageToJPEG(img, decodes) ==
    IF img.type \in {"image/jpeg", "image/png"}
    THEN Resolved("skipped", img.type, img.width, img.height)
    ELSE DrawOnCanvas(img, decodes)

\* A file is handed to convertImageToJPEG.
PickImage ==
    /\ imgIn = NoImage
    /\ imgIn' \in Images
    /\ UNCHANGED <<imgOut, reviewReceipt, dateLabel>>
    /\ UNCHANGED <<today, dbReceipts, edgeVars, coreVars, appVars, apiVars, chartVars, delVars>>

\* convertImageToJPEG settles; whether the browser can decode the file is
\* not up to the code.
ConvertImage ==
    /\ imgIn # NoImage
    /\ imgOut = NotConverted
    /\ \E decodes \in BOOLEAN : imgOut' = ConvertImageToJPEG(imgIn, decodes)
    /\ UNCHANGED <<imgIn, reviewReceipt, dateLabel>>
    /\ UNCHANGED <<today, dbReceipts, edgeVars, coreVars, appVars, apiVars, chartVars, delVars>>

\* The receipts the backend can answer an upload with on a given day: the
\* date was read from the image, or it was substituted by that day's date.
ServerReceipts(day) ==
    {[date |-> d, date_was_defaulted |-> FALSE] : d \in Days}
    \cup {[date |-> day, date_was_defaulted |-> TRUE]}

\* setCurrentReceipt(response.data) after the upload of the file.
ReceiptArrives ==
    /\ imgOut # NotConverted
    /\ reviewReceipt = None
    /\ \E r \in ServerReceipts(today) : reviewReceipt' = Some(r)
    /\ UNCHANGED <<imgIn, imgOut, dateLabel>>
    /\ UNCHANGED <<today, dbReceipts, edgeVars, coreVars, appVars, apiVars, chartVars, delVars>>

\* currentReceipt.date === new Date().toISOString().split('T')[0]
ShowsAutoCompleteLabel(receipt, day) == receipt.date = day

\* The review screen renders the date field.
RenderReview ==
    /\ reviewReceipt # None
    /\ dateLabel' = IF ShowsAutoCompleteLabel(Val(reviewReceipt), today)
                    THEN "shown" ELSE "hidden"
    /\ UNCHANGED <<imgIn, imgOut, reviewReceipt>>
    /\ UNCHANGED <<today, dbReceipts, edgeVars, coreVars, appVars, apiVars, chartVars, delVars>>

\* ------------------------------------------------------------------------
\* apiRequest (api/index.ts and its copy in part_005)
\* ------------------------------------------------------------------------
HttpStatuses == {200, 201, 400, 404, 500}

\* response.ok
ResponseOk(status) == status \in 200..299

\* The errors a rejected fetch, a rejected body read or response.json() can
\* raise, by what the catch block looks at: the class, and whether the
\* message contains 'fetch'.  The text of a fetch TypeError is the browser's:
\* 'Failed to fetch' (Chromium), 'NetworkError when attempting to fetch
\* resource.' (Gecko), 'Load failed' (WebKit).
NoError == [class |-> "none", mentionsFetch |-> FALSE, status |-> 0]

NetworkErrors ==
    {[class |-> "TypeError", mentionsFetch |-> m, status |-> 0] : m \in BOOLEAN}

OtherErrors ==
    {[class |-> c, mentionsFetch |-> FALSE, status |-> 0] :
        c \in {"AbortError", "SyntaxError"}}

\* new ApiError(response.status, errorData)
ApiError(status) == [class |-> "ApiError", mentionsFetch |-> FALSE, status |-> status]

\* The bodies a 2xx response may carry: JSON that parses to some value, or
\* text that does not parse.
Bodies == {"envelope_success", "envelope_failure", "other_json", "not_json"}

NoCall == [fetch |-> "none", error |-> NoError, status |-> 0,
           read |-> NoError, body |-> "none"]

\* What the network can do to one call: fetch rejects, or it resolves with a
\* response whose body is then read, which may fail as well.
ApiCalls ==
    {[fetch |-> "rejected", error |-> e, status |-> 0, read |-> NoError,
      body |-> "none"] : e \in NetworkErrors \cup {[class |-> "AbortError",
                                                    mentionsFetch |-> FALSE,
                                                    status |-> 0]}}
    \cup
    {[fetch |-> "resolved", error |-> NoError, status |-> st, read |-> r,
      body |-> b] : st \in HttpStatuses, r \in NetworkErrors \cup {NoError},
                    b \in Bodies}

NotSettled == [kind |-> "none", status |-> 0, data |-> "none"]

Returned(d) == [kind |-> "returned", status |-> 0, data |-> d]

\* The catch block: an ApiError is rethrown, a TypeError whose message
\* includes 'fetch' becomes the cannot-connect error, anything else the
\* unexpected error.
ApiCatch(e) ==
    IF e.class = "ApiError"
    THEN [kind |-> "ApiError", status |-> e.status, data |-> "none"]
    ELSE IF e.class = "TypeError" /\ e.mentionsFetch
         THEN [kind |-> "cannot_connect", status |-> 0, data |-> "none"]
         ELSE [kind |-> "unexpected", status |-> 0, data |-> "none"]

\* apiRequest: await fetch; if (!response.ok) await response.text() and throw
\* ApiError; await response.json(); return data.
ApiRequest(call) ==
    IF call.fetch = "rejected" THEN ApiCatch(call.error)
    ELSE IF call.read # NoError THEN ApiCatch(call.read)
    ELSE IF ~ResponseOk(call.status) THEN ApiCatch(ApiError(call.status))
    ELSE IF call.body = "not_json"
         THEN ApiCatch([class |-> "SyntaxError", mentionsFetch |-> FALSE, status |-> 0])
         ELSE Returned(call.body)

\* apiRequest is called and the network decides what will happen to it.
ApiRequestStarts ==
    /\ apiCall = NoCall
    /\ apiCall' \in ApiCalls
    /\ UNCHANGED apiResult
    /\ UNCHANGED <<imgIn, imgOut, reviewReceipt, dateLabel, chartVars, delVars>>
    /\ UNCHANGED <<today, dbReceipts, edgeVars, coreVars, appVars>>

\* The call settles: a returned value or a thrown error.
ApiRequestSettles ==
    /\ apiCall # NoCall
    /\ apiResult = NotSettled
    /\ apiResult' = ApiRequest(apiCall)
    /\ UNCHANGED apiCall
    /\ UNCHANGED <<imgIn, imgOut, reviewReceipt, dateLabel, chartVars, delVars>>
    /\ UNCHANGED <<today, dbReceipts, edgeVars, coreVars, appVars>>

\* ------------------------------------------------------------------------
\* getCategoryData (App.tsx): the data of the expense chart
\* ------------------------------------------------------------------------
\* Receipts the list may hold when the chart is drawn.
MaxChartReceipts == 3

\* The label of receipts without a category (the source's string is the
\* Japanese word for "unclassified").
Unclassified == "unclassified"

\* expense_category as the backend may deliver it: absent (null), empty, a
\* category of the form's list, or the label itself.
ChartCategories == {None, Some(""), Some("travel"), Some("food"), Some(Unclassified)}

ChartAmounts == {0, 900, 1234}

ChartReceipts == [expense_category : ChartCategories, total_amount : ChartAmounts]

\* receipt.expense_category || label: null and '' are falsy.
CategoryName(receipt) ==
    IF receipt.expense_category \in {None, Some("")}
    THEN Unclassified ELSE Val(receipt.expense_category)

\* Mutant of AddToCategory: the amount replaces the category's sum.
AddToCategoryOverwrites(entries, name, amount) ==
    IF \E i \in 1..Len(entries) : entries[i].name = name
    THEN [i \in 1..Len(entries) |->
            IF entries[i].name = name
            THEN [name |-> name, value |-> amount] ELSE entries[i]]
    ELSE Append(entries, [name |-> name, value |-> amount])

\* categories[category] = (categories[category] || 0) + receipt.total_amount,
\* the object's entries kept in insertion order.
AddToCategory(entries, name, amount) ==
    IF \E i \in 1..Len(entries) : entries[i].name = name
    THEN [i \in 1..Len(entries) |->
            IF entries[i].name = name
            THEN [name |-> name, value |-> entries[i].value + amount]
            ELSE entries[i]]
    ELSE Append(entries, [name |-> name, value |-> 0 + amount])

\* receipts.forEach(...) and Object.entries(categories).map(...)
RECURSIVE GetCategoryData(_)
GetCategoryData(list) ==
    IF list = <<>> THEN <<>>
    ELSE LET last == list[Len(list)]
         IN  AddToCategory(GetCategoryData(SubSeq(list, 1, Len(list) - 1)),
                           CategoryName(last), last.total_amount)

NotDrawn == <<[name |-> "none", value |-> 0]>>

\* The chart view is opened over some list of receipts.
ChartOpens ==
    /\ chartData = NotDrawn
    /\ chartReceipts = <<>>
    /\ chartReceipts' \in SeqsUpTo(ChartReceipts, MaxChartReceipts)
    /\ UNCHANGED chartData
    /\ UNCHANGED <<imgIn, imgOut, reviewReceipt, dateLabel, apiVars, delVars>>
    /\ UNCHANGED <<today, dbReceipts, edgeVars, coreVars, appVars>>

\* The chart view renders: getCategoryData().
ChartRenders ==
    /\ chartData' = GetCategoryData(chartReceipts)
    /\ UNCHANGED chartReceipts
    /\ UNCHANGED <<imgIn, imgOut, reviewReceipt, dateLabel, apiVars, delVars>>
    /\ UNCHANGED <<today, dbReceipts, edgeVars, coreVars, appVars>>

\* ------------------------------------------------------------------------
\* handleDeleteReceipt (App.tsx) and the list view's buttons
\* ------------------------------------------------------------------------
\* Receipts the list may show.
MaxDeleteIds == 2

\* handleDeleteReceipt calls that may be in progress for one id.
MaxDeleteCalls == 2

DeleteIds == 1..MaxDeleteIds

NoDeleteCalls == [r \in DeleteIds |-> [deleting |-> 0, fetching |-> 0]]

\* The list view is opened over the receipts stored.
ListShows ==
    /\ delShown = {}
    /\ delStored = {}
    /\ delCalls = NoDeleteCalls
    /\ delMsgTimers = 0
    /\ \E ids \in SUBSET DeleteIds :
        /\ ids # {}
        /\ delStored' = ids
        /\ delShown' = ids
    /\ UNCHANGED <<isDeleting, delCalls, delMsgTimers>>
    /\ UNCHANGED <<imgIn, imgOut, reviewReceipt, dateLabel, apiVars, chartVars>>
    /\ UNCHANGED <<today, dbReceipts, edgeVars, coreVars, appVars>>

\* disabled={isLoading || isDeleting === receipt.id}
DeleteButtonEnabled(r) == ~isLoading /\ isDeleting # Some(r)

\* The delete button of a listed receipt is pressed and confirmed:
\* setIsDeleting(receiptId), then await deleteReceipt(receiptId).
HandleDeleteReceipt ==
    /\ \E r \in delShown :
        /\ DeleteButtonEnabled(r)
        /\ delCalls[r].deleting + delCalls[r].fetching < MaxDeleteCalls
        /\ isDeleting' = Some(r)
        /\ delCalls' = [delCalls EXCEPT ![r].deleting = @ + 1]
    /\ UNCHANGED <<delStored, delShown, delMsgTimers>>
    /\ UNCHANGED <<imgIn, imgOut, reviewReceipt, dateLabel, apiVars, chartVars>>
    /\ UNCHANGED <<today, dbReceipts, edgeVars, coreVars, appVars>>

\* await deleteReceipt settles.  On success the handler goes on to await
\* fetchReceipts; a failure envelope or a thrown error (the receipt is gone,
\* the backend is down) sets the error message and runs the finally block.
DeleteRequestSettles ==
    /\ \E r \in DeleteIds :
        /\ delCalls[r].deleting > 0
        /\ \/ /\ r \in delStored
              /\ delStored' = delStored \ {r}
              /\ delCalls' = [delCalls EXCEPT ![r].deleting = @ - 1,
                                              ![r].fetching = @ + 1]
              /\ UNCHANGED <<isDeleting, message>>
           \/ /\ delCalls' = [delCalls EXCEPT ![r].deleting = @ - 1]
              /\ message' = Some("error")
              /\ isDeleting' = None
              /\ UNCHANGED delStored
    /\ UNCHANGED <<delShown, delMsgTimers>>
    /\ UNCHANGED <<view, receipts, currentReceipt, isLoading, progress,
                   backendStatus, editingReceipt, srvReceipts, hcPc, effFetch,
                   upl, uplTimer, save, saveTimer>>
    /\ UNCHANGED <<imgIn, imgOut, reviewReceipt, dateLabel, apiVars, chartVars>>
    /\ UNCHANGED <<today, dbReceipts, edgeVars, coreVars>>

\* await fetchReceipts settles: the list is replaced by what the backend
\* stores, or left as it is (the handler saw the backend offline, or the
\* answer was not a list); then the success message, its timer, and the
\* finally block: setIsDeleting(null).
DeleteFetchSettles ==
    /\ \E r \in DeleteIds :
        /\ delCalls[r].fetching > 0
        /\ delCalls' = [delCalls EXCEPT ![r].fetching = @ - 1]
        /\ delShown' \in {delStored, delShown}
        /\ isDeleting' = None
    /\ message' = Some("success")
    /\ delMsgTimers' = delMsgTimers + 1
    /\ UNCHANGED delStored
    /\ UNCHANGED <<view, receipts, currentReceipt, isLoading, progress,
                   backendStatus, editingReceipt, srvReceipts, hcPc, effFetch,
                   upl, uplTimer, save, saveTimer>>
    /\ UNCHANGED <<imgIn, imgOut, reviewReceipt, dateLabel, apiVars, chartVars>>
    /\ UNCHANGED <<today, dbReceipts, edgeVars, coreVars>>

\* setTimeout(() => setMessage(null), 3000) fires.
DeleteMessageTimerFires ==
    /\ delMsgTimers > 0
    /\ delMsgTimers' = delMsgTimers - 1
    /\ message' = None
    /\ UNCHANGED <<isDeleting, delCalls, delStored, delShown>>
    /\ UNCHANGED <<view, receipts, currentReceipt, isLoading, progress,
                   backendStatus, editingReceipt, srvReceipts, hcPc, effFetch,
                   upl, uplTimer, save, saveTimer>>
    /\ UNCHANGED <<imgIn, imgOut, reviewReceipt, dateLabel, apiVars, chartVars>>
    /\ UNCHANGED <<today, dbReceipts, edgeVars, coreVars>>

InitEdge ==
    /\ edgePc = "idle"
    /\ edgeReq = NoReq
    /\ edgeVision = "none"
    /\ edgeCalls = 0
    /\ edgeRow = NoRow
    /\ edgeResp = NoResp

InitCore ==
    /\ corePc = "idle"
    /\ coreReq = NoCoreReq
    /\ visionCand = NotRun
    /\ ocrText = <<>>
    /\ regexCand = NotRun
    /\ visionCalls = 0
    /\ ocrCalls = 0
    /\ final = NoFinal
    /\ processingDate = 1

InitApp ==
    /\ view = "home"
    /\ receipts = <<>>
    /\ currentReceipt = None
    /\ isLoading = FALSE
    /\ progress = 0
    /\ message = None
    /\ backendStatus = "unknown"
    /\ editingReceipt = None
    /\ srvReceipts = <<>>
    /\ hcPc = "idle"
    /\ effFetch = 0
    /\ upl = NoUpload
    /\ uplTimer = "none"
    /\ save = NoSave
    /\ saveTimer = FALSE

InitClient ==
    /\ imgIn = NoImage
    /\ imgOut = NotConverted
    /\ reviewReceipt = None
    /\ dateLabel = "none"
    /\ apiCall = NoCall
    /\ apiResult = NotSettled
    /\ chartReceipts = <<>>
    /\ chartData = NotDrawn
    /\ isDeleting = None
    /\ delCalls = NoDeleteCalls
    /\ delStored = {}
    /\ delShown = {}
    /\ delMsgTimers = 0

Init ==
    /\ today = 1
    /\ dbReceipts = <<>>
    /\ InitEdge
    /\ InitCore
    /\ InitApp
    /\ InitClient

EdgeNext ==
    \/ ServeReceive
    \/ ServeOpenAiSettles
    \/ ServeInsertSettles
    \/ DayPasses

SpecEdge == Init /\ [][EdgeNext]_vars

CoreNext ==
    \/ CoreReceive
    \/ CoreVision
    \/ CoreOcr
    \/ CoreReconcile
    \/ DayPasses

SpecCore == Init /\ [][CoreNext]_vars

Spec == Init /\ [][Next]_vars

\* Timers set with setTimeout fire: the event loop runs every callback that
\* is due.
SpecLive == Spec /\ WF_vars(UploadTimerFires)

ClientNext ==
    \/ PickImage
    \/ ConvertImage
    \/ ReceiptArrives
    \/ RenderReview
    \/ DayPasses

SpecClient == Init /\ [][ClientNext]_vars

ApiNext ==
    \/ ApiRequestStarts
    \/ ApiRequestSettles

SpecApi == Init /\ [][ApiNext]_vars

ChartNext ==
    \/ ChartOpens
    \/ ChartRenders

SpecChart == Init /\ [][ChartNext]_vars

DeleteNext ==
    \/ ListShows
    \/ HandleDeleteReceipt
    \/ DeleteRequestSettles
    \/ DeleteFetchSettles
    \/ DeleteMessageTimerFires

SpecDelete == Init /\ [][DeleteNext]_vars

\* One upload seen at each of the places that serve it: the browser's
\* uploadReceipt, the edge function, or the extraction core.
AttemptsNext ==
    \/ InitEdge /\ InitCore /\ today = 1 /\ Next
    \/ InitApp /\ InitCore /\ EdgeNext
    \/ InitApp /\ InitEdge /\ dbReceipts = <<>> /\ CoreNext

SpecAttempts == Init /\ [][AttemptsNext]_vars

\* ------------------------------------------------------------------------
\* Claims
\* ------------------------------------------------------------------------
EdgeVisionFailed == edgeVision \in {"fetch_rejected", "json_rejected", "malformed"}

\* C1 (as claimed): when the vision call of an upload fails and the OCR text
\* of the image yields a total, the upload is answered with a successful
\* record carrying that total and processing_mode ocr, never with an error.
\* The edge function answers every vision failure with its status-400 error.
C1_VisionFailureFallsThroughToOcr ==
    (/\ edgePc = "responded"
     /\ edgeReq.method = "POST"
     /\ EdgeVisionFailed
     /\ ~IsNone(edgeReq.ocrTotal))
    => /\ edgeResp.status = 200
       /\ edgeResp.success
       /\ edgeResp.data = Some([total_amount |-> Val(edgeReq.ocrTotal),
                                processing_mode |-> "ocr"])

CoreRecord == Val(final.record)

CoreRowsHave(f) == \A i \in 1..Len(dbReceipts) : ~IsNone(dbReceipts[i][f])

\* C2: once extraction was attempted, it fails exactly when neither the vision
\* candidate nor the regex candidate has a total_amount; a successful record
\* and every persisted row have a total_amount, and a failure returns no record.
C2_FailsIffNoTotal ==
    /\ (corePc = "done" /\ final.status # "rejected")
        => /\ final.status \in {"ok", "failed"}
           /\ (final.status = "failed")
                <=> (~HasTotal(visionCand) /\ ~HasTotal(regexCand))
    /\ final.status = "ok"
        => final.record # None /\ ~IsNone(CoreRecord.total_amount)
    /\ final.status \in {"failed", "rejected"} => final.record = None
    /\ CoreRowsHave("total_amount")

\* C2 witness: both paths ran, neither found a total, and the upload failed.
C2_Witness ==
    /\ corePc = "done"
    /\ final.status = "failed"
    /\ visionCand.status = "ok"
    /\ regexCand.status = "ok"
    /\ ~IsNone(regexCand.rec.date)

\* C3: when the vision candidate has a total, every field it populated has
\* the vision value in the final record and every field it left null has the
\* regex candidate's value when that one has it; when only the regex candidate
\* exists, the final record's extracted fields are the regex candidate's.
C3_MergePolicy ==
    final.status = "ok" =>
        /\ HasTotal(visionCand) =>
              \A f \in Fields :
                /\ ~IsNone(visionCand.rec[f]) => CoreRecord[f] = visionCand.rec[f]
                /\ (/\ IsNone(visionCand.rec[f])
                    /\ regexCand.status = "ok"
                    /\ ~IsNone(regexCand.rec[f]))
                   => CoreRecord[f] = regexCand.rec[f]
        /\ (visionCand.status # "ok" /\ regexCand.status = "ok") =>
              /\ \A f \in Fields :
                    ~IsNone(regexCand.rec[f]) => CoreRecord[f] = regexCand.rec[f]
              /\ CoreRecord.expense_category = regexCand.rec.expense_category

\* C3 witness: a vision candidate with a total and no date, merged with a regex
\* candidate that has a date and a different total.
C3_Witness ==
    /\ final.status = "ok"
    /\ HasTotal(visionCand)
    /\ IsNone(visionCand.rec.date)
    /\ regexCand.status = "ok"
    /\ ~IsNone(regexCand.rec.date)
    /\ HasTotal(regexCand)
    /\ regexCand.rec.total_amount # visionCand.rec.total_amount

\* Which extractor a field of the final record came from, read off the two
\* candidates (a defaulted field came from neither).
FieldSource(f) ==
    LET base  == IF HasTotal(visionCand) THEN "vision" ELSE "regex"
        bcand == IF HasTotal(visionCand) THEN visionCand ELSE regexCand
        ocand == IF HasTotal(visionCand) THEN regexCand ELSE visionCand
    IN  IF ~IsNone(bcand.rec[f]) THEN {base}
        ELSE IF ocand.status = "ok" /\ ~IsNone(ocand.rec[f])
             THEN {"vision", "regex"} \ {base}
             ELSE {}

Contributors == UNION {FieldSource(f) : f \in Fields}

\* C4: processing_mode names the contributing extractors: ai exactly when
\* every populated field came from vision, ocr exactly when only the regex
\* path contributed, hybrid exactly when both did; a fully populated vision
\* payload gives ai and a record equal to the vision output.
C4_ModeTruthful ==
    final.status = "ok" =>
        /\ CoreRecord.processing_mode = "ai" <=> Contributors = {"vision"}
        /\ CoreRecord.processing_mode = "ocr" <=> Contributors = {"regex"}
        /\ CoreRecord.processing_mode = "hybrid" <=> Contributors = {"vision", "regex"}
        /\ (visionCand.status = "ok" /\ \A f \in Fields : ~IsNone(visionCand.rec[f]))
            => /\ CoreRecord.processing_mode = "ai"
               /\ \A f \in Fields : CoreRecord[f] = visionCand.rec[f]

\* C4 witness: both paths ran and the vision candidate was fully populated.
C4_Witness ==
    /\ final.status = "ok"
    /\ regexCand.status = "ok"
    /\ HasTotal(regexCand)
    /\ visionCand.status = "ok"
    /\ \A f \in Fields : ~IsNone(visionCand.rec[f])

\* C5: an OCR-only request never invokes the vision path, an AI-only request
\* never invokes the OCR/regex path, and under AI-only a vision failure ends
\* in the structured failure.
C5_ExplicitModes ==
    /\ coreReq.mode = "ocr" => visionCalls = 0 /\ visionCand = NotRun
    /\ coreReq.mode = "ai" => ocrCalls = 0 /\ regexCand = NotRun
    /\ (corePc = "done" /\ coreReq.mode = "ai" /\ visionCand.status = "failed")
        => final.status = "failed" /\ final.record = None

\* C5 witness: an AI-only upload whose vision call failed has ended.
C5_Witness ==
    /\ corePc = "done"
    /\ coreReq.mode = "ai"
    /\ visionCalls = 1
    /\ visionCand.status = "failed"

DateExtracted ==
    \/ visionCand.status = "ok" /\ ~IsNone(visionCand.rec.date)
    \/ regexCand.status = "ok" /\ ~IsNone(regexCand.rec.date)

\* C6: in a successful record date_was_defaulted is true exactly when neither
\* path extracted a date; then date is the processing date, and otherwise the
\* record carries an extracted date.
C6_DateDefaulted ==
    final.status = "ok" =>
        /\ CoreRecord.date_was_defaulted <=> ~DateExtracted
        /\ CoreRecord.date_was_defaulted => CoreRecord.date = Some(processingDate)
        /\ ~CoreRecord.date_was_defaulted =>
              /\ ~IsNone(CoreRecord.date)
              /\ CoreRecord.date \in {visionCand.rec.date, regexCand.rec.date}

\* C6 witness: a record whose date was defaulted on a day other than the one
\* printed on the receipts.
C6_Witness ==
    /\ final.status = "ok"
    /\ CoreRecord.date_was_defaulted
    /\ processingDate # PrintedDay
    /\ regexCand.status = "ok"

StoreExtracted ==
    \/ visionCand.status = "ok" /\ ~IsNone(visionCand.rec.store_name)
    \/ regexCand.status = "ok" /\ ~IsNone(regexCand.rec.store_name)

UploadSucceeded ==
    /\ upl.resp.kind = "envelope"
    /\ upl.resp.success
    /\ upl.resp.data # None

C9_SavedEditsAreStored ==
    saveTimer =>
        \E i \in 1..Len(srvReceipts) : srvReceipts[i] = Val(save.data)

\* TROUBLESHOOTING.md and the uploadReceipt of api/index.ts: at most 10MB.
DocMaxMB == 10

\* C10 (as claimed): an upload request is in flight only for a file whose
\* type is JPEG or PNG and whose size is at most 10MB.  The uploadReceipt the
\* app links converts other types and allows 50MB.
C10_OnlySmallJpegOrPngIsSent ==
    upl.pc = "request" =>
        /\ upl.file.type \in {"image/jpeg", "image/png"}
        /\ upl.file.size <= DocMaxMB

\* C11 (as claimed): after every run of checkBackendHealth the status is
\* online exactly when the /healthz request of that run responded OK: a run
\* whose healthCheck returned false ends offline, and a run whose healthCheck
\* returned true sets online and is still online when the run ends.  In the
\* code a getApiStatus that throws ends such a run with the status offline.
C11_StatusFollowsHealthz ==
    [][/\ (hcPc = "idle" /\ hcPc' = "apiStatus") => backendStatus' = "online"
       /\ (hcPc = "apiStatus" /\ hcPc' = "idle") => backendStatus' = "online"
       /\ (hcPc = "idle" /\ hcPc' = "idle" /\ backendStatus' # backendStatus)
            => backendStatus' = "offline"]_vars

\* C12 as the specification states it: when the conversion fails, the upload
\* is not aborted and the original file is passed unchanged to the request.
C12_ConversionFailureNeverAborts ==
    [][(upl.pc = "converting" /\ upl'.conv = "rejected")
         => (upl'.pc = "request" /\ upl'.sent = upl.file)]_vars

\* C12 (amended): when the conversion fails, uploadReceipt goes on with the
\* original file: the request carries it unchanged if it is within the upload
\* limit, otherwise the upload ends with the size error and no request; a
\* conversion error never reaches the caller.
C12_ConversionFailureFallsBackToOriginal ==
    [][(upl.pc = "converting" /\ upl'.conv = "rejected")
         => IF TooLarge(upl.file)
            THEN upl'.pc = "settled" /\ upl'.resp = TooLargeError /\ upl'.posts = 0
            ELSE upl'.pc = "request" /\ upl'.sent = upl.file /\ upl'.posts = 1]_vars

C12_Witness ==
    /\ upl.pc = "request"
    /\ upl.conv = "rejected"
    /\ upl.sent = upl.file

\* C13: a zero-byte image is rejected before anything is attempted: no upload
\* request is ever in flight for an empty file.
C13_EmptyFileIsNeverSent ==
    (upl.pc = "request") => (upl.file.size > 0 /\ upl.sent.size > 0)

\* C14: an image above maxSize on either side is downscaled, not rejected:
\* for every image the browser can decode, convertImageToJPEG resolves with
\* both dimensions at most maxSize, the width:height ratio kept (to the
\* pixel), and the dimensions unchanged when they were within the bound.
C14_OversizeImageIsDownscaled ==
    (imgOut # NotConverted /\ imgOut.decoded # "no") =>
        /\ imgOut.kind = "resolved"
        /\ imgOut.width <= MaxSize
        /\ imgOut.height <= MaxSize
        /\ imgOut.width * imgIn.height - imgOut.height * imgIn.width
               \in -Larger(imgIn.width, imgIn.height)..Larger(imgIn.width, imgIn.height)
        /\ (imgIn.width <= MaxSize /\ imgIn.height <= MaxSize)
              => (imgOut.width = imgIn.width /\ imgOut.height = imgIn.height)

\* C18: the review screen shows the (自動補完) label exactly for receipts
\* whose date was substituted, never for a date read from the image.
C18_LabelIffDateWasDefaulted ==
    (dateLabel # "none") =>
        (dateLabel = "shown" <=> Val(reviewReceipt).date_was_defaulted)

\* C15: a single attempt per path, no retry: for one request the edge function
\* calls the vision API at most once, the core calls the vision API and the
\* OCR engine at most once each, and one uploadReceipt call posts at most one
\* request to the upload endpoint.
C15_SingleAttemptPerPath ==
    /\ edgeCalls <= 1
    /\ visionCalls <= 1
    /\ ocrCalls <= 1
    /\ upl.posts <= 1

\* The one OpenAI request of an upload was rejected and the upload was
\* answered without a second one.
C15_Witness ==
    /\ edgePc = "responded"
    /\ edgeVision = "fetch_rejected"
    /\ edgeCalls = 1

\* The amounts on the lines of the OCR text that carry keyword kw, or on all
\* amount lines.
AmountsOnLines(kws) ==
    {NormalizeAmount(ocrText[i].tok) :
        i \in {j \in 1..Len(ocrText) : ocrText[j].kind = "amount" /\ ocrText[j].kw \in kws}}

\* C16: when a total-keyword line of the OCR text has an amount, the regex
\* total is the amount of such a line, even when another line has a larger
\* amount; only when no keyword line has an amount is it the maximum amount.
C16_TotalKeywordLineWins ==
    (regexCand.status = "ok") =>
        /\ AmountsOnLines({"total"}) # {}
              => regexCand.rec.total_amount \in {Some(a) : a \in AmountsOnLines({"total"})}
        /\ (AmountsOnLines({"total"}) = {} /\ AmountsOnLines({"subtotal"}) # {})
              => /\ ~IsNone(regexCand.rec.total_amount)
                 /\ Val(regexCand.rec.total_amount) \in AmountsOnLines({"subtotal"})
                 /\ \A a \in AmountsOnLines({"subtotal"}) :
                        a <= Val(regexCand.rec.total_amount)

\* A subtotal line with the larger amount and a total line with the smaller:
\* the total line's amount was extracted.
C16_Witness ==
    /\ regexCand.status = "ok"
    /\ AmountsOnLines({"total"}) = {900}
    /\ AmountsOnLines({"subtotal"}) = {1234}
    /\ regexCand.rec.total_amount = Some(900)

\* The outcome of a second run of the pipeline on day d that gets the same
\* vision response and the same OCR text, hence the same two candidates, as
\* the run just finished.
RerunOn(d) ==
    IF coreReq.imageEmpty
    THEN [status |-> "rejected", record |-> None]
    ELSE Reconcile(visionCand, regexCand, d)

C19_EdgeAlwaysAnswersWithEnvelope ==
    /\ [](edgePc = "responded" /\ edgeReq.method = "POST" =>
            /\ edgeResp # NoResp
            /\ edgeResp.success =>
                  /\ edgeResp.status = 200
                  /\ edgeVision = "answered"
                  /\ NotNullOk(edgeRow)
                  /\ \E i \in 1..Len(dbReceipts) :
                        /\ dbReceipts[i].store_name = edgeRow.store_name
                        /\ dbReceipts[i].total_amount = edgeRow.total_amount
                        /\ dbReceipts[i].date = edgeRow.date
            /\ ~edgeResp.success => edgeResp = ErrorResponse
            /\ edgeVision \in {"fetch_rejected", "json_rejected", "malformed"}
                  => edgeResp = ErrorResponse)
    /\ [][(edgeResp'.success /\ ~edgeResp.success) =>
            /\ edgePc = "awaitInsert"
            /\ Len(dbReceipts') = Len(dbReceipts) + 1]_vars
    /\ [][(edgePc = "awaitInsert" /\ edgePc' = "responded" /\ dbReceipts' = dbReceipts) =>
            edgeResp' = ErrorResponse]_vars

\* Both answers occurred: a row was inserted and reported as success, and a
\* later request whose OpenAI call failed was answered with the error.
C19_Witness ==
    /\ edgePc = "responded"
    /\ edgeResp = ErrorResponse
    /\ edgeVision = "fetch_rejected"
    /\ Len(dbReceipts) = 1

\* C20: once the upload request of handleFileUpload or handleTestUpload has
\* settled, with a response or an error, the app eventually shows review or
\* home with isLoading false.
C20_SettledUploadLeavesProcessing ==
    (upl.pc = "settled") ~> (view \in {"review", "home"} /\ ~isLoading)

\* An upload was answered with a failure envelope and the app is back on the
\* home screen, its timer gone.
C20_Witness ==
    /\ view = "home"
    /\ ~isLoading
    /\ progress = 100
    /\ message = Some("error")
    /\ upl = NoUpload
    /\ uplTimer = "none"

\* C21: apiRequest returns no value for a non-2xx response but throws the
\* ApiError carrying its status; a TypeError of fetch becomes the
\* cannot-connect error; every other failure becomes the unexpected error.
C21_ApiRequestErrorMapping ==
    (apiResult # NotSettled) =>
        /\ (apiCall.fetch = "resolved" /\ ~ResponseOk(apiCall.status))
              => (apiResult.kind = "ApiError" /\ apiResult.status = apiCall.status)
        /\ (apiCall.fetch = "rejected" /\ apiCall.error.class = "TypeError")
              => apiResult.kind = "cannot_connect"
        /\ (apiCall.fetch = "rejected" /\ apiCall.error.class # "TypeError")
              => apiResult.kind = "unexpected"
        /\ (apiCall.fetch = "resolved" /\ ResponseOk(apiCall.status)
               /\ (apiCall.read # NoError \/ apiCall.body = "not_json"))
              => apiResult.kind = "unexpected"

RECURSIVE SumOfAmounts(_)
SumOfAmounts(list) ==
    IF list = <<>> THEN 0
    ELSE SumOfAmounts(SubSeq(list, 1, Len(list) - 1)) + list[Len(list)].total_amount

RECURSIVE SumOfValues(_)
SumOfValues(entries) ==
    IF entries = <<>> THEN 0
    ELSE SumOfValues(SubSeq(entries, 1, Len(entries) - 1)) + entries[Len(entries)].value

\* The receipts of the list that are counted under category name.
ReceiptsOf(name) ==
    SelectSeq(chartReceipts, LAMBDA r : CategoryName(r) = name)

\* C22: the chart data has exactly one entry per distinct category of the
\* listed receipts (no category counting as the unclassified label), each
\* entry's value is the sum of total_amount over the receipts of its
\* category, and the values add up to the sum over all receipts.
C22_ChartDataSumsPerCategory ==
    (chartData # NotDrawn) =>
        /\ \A i, j \in 1..Len(chartData) :
              chartData[i].name = chartData[j].name => i = j
        /\ {chartData[i].name : i \in 1..Len(chartData)}
              = {CategoryName(chartReceipts[k]) : k \in 1..Len(chartReceipts)}
        /\ \A i \in 1..Len(chartData) :
              chartData[i].value = SumOfAmounts(ReceiptsOf(chartData[i].name))
        /\ SumOfValues(chartData) = SumOfAmounts(chartReceipts)

\* Three receipts in two categories, one of them without a category and one
\* carrying the label itself, drawn as two entries.
C22_Witness ==
    /\ Len(chartReceipts) = 3
    /\ Len(chartData) = 2
    /\ \E k \in 1..3 : chartReceipts[k].expense_category = None
    /\ \E k \in 1..3 : chartReceipts[k].expense_category = Some(Unclassified)
    /\ \E i \in 1..2 : chartData[i].name = Unclassified /\ chartData[i].value = 2134

\* C23: editingReceipt is non-null only while the view is review: in every
\* state whose view is home, processing, list or chart it is null.
C23_EditingOnlyInReview ==
    (view \in {"home", "processing", "list", "chart"}) => (editingReceipt = None)

\* A handleDeleteReceipt call for r has not reached its finally block.
DeleteRunning(r) == delCalls[r].deleting + delCalls[r].fetching > 0

\* C24: while a delete request for receipt r is in flight isDeleting is r, so
\* no second delete request for r can be issued, whatever the interleaving
\* of deletes of different receipts; when no delete is in progress
\* isDeleting is null.
C24_IsDeletingTracksDeletes ==
    /\ \A r \in DeleteIds : delCalls[r].deleting > 0 => isDeleting = Some(r)
    /\ \A r \in DeleteIds : delCalls[r].deleting <= 1
    /\ (\A r \in DeleteIds : ~DeleteRunning(r)) => isDeleting = None

\* C25: a view chosen by the user is not overridden by a stale timer: while
\* the view is home, after the back button, no firing of a timer that
\* handleSaveReceipt, handleFileUpload or handleTestUpload scheduled changes
\* the view.
C25_TimersLeaveHomeAlone ==
    /\ [][(view = "home" /\ saveTimer /\ ~saveTimer') => view' = "home"]_vars
    /\ [][(view = "home" /\ uplTimer # "none" /\ uplTimer' = "none")
            => view' = "home"]_vars

\* C26: when backendStatus is not online, handleFileUpload and
\* handleTestUpload issue no request and change nothing but the message:
\* view, isLoading, progress, currentReceipt and receipts stay as they are.
C26_OfflineUploadOnlySetsMessage ==
    [][(backendStatus # "online" /\ (HandleFileUpload \/ HandleTestUpload)) =>
          /\ message' = Some("error")
          /\ UNCHANGED <<view, isLoading, progress, currentReceipt, receipts>>
          /\ UNCHANGED <<upl, uplTimer, srvReceipts>>]_vars

\* An upload was refused before the first health check had answered: only
\* the refusal can have set the error message, no upload having started yet.
C26_Witness ==
    /\ backendStatus = "unknown"
    /\ message = Some("error")
    /\ view = "home"
    /\ ~isLoading
    /\ progress = 0
    /\ upl = NoUpload

\* An upload is waiting for its conversion or its request.
UploadPending(u) == u.pc \in {"converting", "request", "testRequest"}

SaveFetching(sv) == sv.pc \in {"fetchEdit", "fetchNew"}

\* What a settling getReceipts of fetchReceipts may do: receipts changes
\* only when such a request settles, and then to the list the backend sent;
\* an answer that replaces the list sets no message, and the only message a
\* settling request sets is the error of the throwing case.
FetchSettlesWellFormed ==
    /\ [][(receipts' # receipts)
            => /\ effFetch' < effFetch \/ SaveFetching(save)
               /\ receipts' = srvReceipts]_vars
    /\ [][(effFetch' < effFetch)
            => \/ receipts' = srvReceipts /\ message' = message
               \/ receipts' = receipts /\ message' \in {message, Some("error")}]_vars

\* C28: fetchReceipts replaces the receipts list only on a well-formed
\* answer: while backendStatus is not online it sends no request, and a
\* request that throws or answers without a list leaves receipts unchanged,
\* an error message being set only in the throwing case.
C28_FetchReplacesOnlyOnList ==
    /\ [][(effFetch' > effFetch) => backendStatus' = "online"]_vars
    /\ [][(~SaveFetching(save) /\ SaveFetching(save'))
            => backendStatus = "online"]_vars
    /\ FetchSettlesWellFormed

\* C28 with the status fetchReceipts actually reads: the backendStatus of the
\* render whose handler calls it.
C28_FetchReplacesOnlyOnListOfItsRender ==
    /\ [][(effFetch' > effFetch) => backendStatus' = "online"]_vars
    /\ [][(~SaveFetching(save) /\ SaveFetching(save'))
            => save'.seen = "online"]_vars
    /\ FetchSettlesWellFormed

====
